---- MODULE Spec2Model ----
(***************************************************************************)
(* Model of the classification-result-to-storage pipeline of the document  *)
(* classifier: DocumentClassifier.classify_and_organize_documents          *)
(* (src/document_classifier.py) and sanitize_path, create_backup,          *)
(* create_category_folders, move_document_to_category                      *)
(* (src/utils/file_operations.py).                                         *)
(*                                                                         *)
(* A string is a sequence of one-character strings.  A path is a sequence  *)
(* of components, each component a string in that sense.  The output       *)
(* directory is the one-component path <<OutRoot>>; the file system root   *)
(* is the one-component path <<FsRoot>>.  A file's content is a positive   *)
(* integer, fresh for every file that appears in the input directory.     *)
(***************************************************************************)
EXTENDS Integers, Sequences, FiniteSets, TLC

\* ------------------------------------------------------------ bounds
\* Files that ever appear in the input directory.
MaxFiles == 2
\* Calls of classify_and_organize_documents.
MaxRuns == 2
\* Seconds the clock may advance (timestamps 0..MaxClock).
MaxClock == 1
\* Length of the labels enumerated by SpecLabels.
MaxLabelLen == 4
\* File system operations (mkdir, copy2, move) that raise in one behaviour.
MaxFaults == 1
\* Length of the strings SpecSanitize gives to sanitize_path.
MaxStrLen == 3

\* ------------------------------------------------------------ strings
RECURSIVE LStrip(_, _)
\* str.lstrip(chars)
LStrip(s, chars) ==
    IF s = <<>> THEN <<>>
    ELSE IF s[1] \in chars THEN LStrip(Tail(s), chars) ELSE s

RECURSIVE RStrip(_, _)
\* str.rstrip(chars)
RStrip(s, chars) ==
    IF s = <<>> THEN <<>>
    ELSE IF s[Len(s)] \in chars THEN RStrip(SubSeq(s, 1, Len(s) - 1), chars) ELSE s

\* str.strip(chars)
Strip(s, chars) == RStrip(LStrip(s, chars), chars)

\* The characters str.strip() without argument removes.
Whitespace == {" ", "\t", "\n"}

\* str.strip()
str_strip(s) == Strip(s, Whitespace)

RECURSIVE ReplaceChar(_, _, _)
\* str.replace(c, d) for a one-character c
ReplaceChar(s, c, d) ==
    IF s = <<>> THEN <<>>
    ELSE <<(IF s[1] = c THEN d ELSE s[1])>> \o ReplaceChar(Tail(s), c, d)

RECURSIVE ReplaceSpacedSep(_)
\* str.replace(" > ", "/"): leftmost, non-overlapping occurrences
ReplaceSpacedSep(s) ==
    IF Len(s) < 3 THEN s
    ELSE IF SubSeq(s, 1, 3) = <<" ", ">", " ">>
         THEN <<"/">> \o ReplaceSpacedSep(SubSeq(s, 4, Len(s)))
         ELSE <<s[1]>> \o ReplaceSpacedSep(Tail(s))

RECURSIVE Split(_, _)
\* str.split(c) for a one-character c: one more part than occurrences of c
Split(s, c) ==
    IF \A i \in 1..Len(s) : s[i] # c THEN <<s>>
    ELSE LET i == CHOOSE j \in 1..Len(s) :
                      s[j] = c /\ \A k \in 1..(j - 1) : s[k] # c
         IN  <<SubSeq(s, 1, i - 1)>> \o Split(SubSeq(s, i + 1, Len(s)), c)

\* str.startswith(p)
StartsWith(s, p) == Len(s) >= Len(p) /\ SubSeq(s, 1, Len(p)) = p

\* ------------------------------------------------------------ sanitize_path
invalid_chars == {"<", ">", ":", "\"", "/", "\\", "|", "?", "*"}

RECURSIVE ReplaceInvalid(_)
\* the loop of sanitize_path: every invalid character becomes '_'
ReplaceInvalid(s) ==
    IF s = <<>> THEN <<>>
    ELSE <<(IF s[1] \in invalid_chars THEN "_" ELSE s[1])>> \o ReplaceInvalid(Tail(s))

\* mutant: the trimming of line 25 left out
SanitizeWithoutStrip(x) == ReplaceInvalid(x)

\* lines 20-26
sanitize_path(x) == Strip(ReplaceInvalid(x), {".", " "})

\* ------------------------------------------------------------ paths
OutRoot == <<"<output_dir>">>
FsRoot == <<"/">>
output_base == <<OutRoot>>
BackupsName == <<"_backups">>

RECURSIVE DropDots(_)
\* pathlib's parsing of a string operand: empty and "." components vanish
DropDots(comps) ==
    IF comps = <<>> THEN <<>>
    ELSE (IF Head(comps) = <<>> \/ Head(comps) = <<".">> THEN <<>> ELSE <<Head(comps)>>)
         \o DropDots(Tail(comps))

\* pathlib: path / s for a string s (POSIX flavour); an s that starts with
\* "/" is absolute and replaces path
PathDiv(path, s) ==
    IF s # <<>> /\ s[1] = "/"
    THEN <<FsRoot>> \o DropDots(Split(s, "/"))
    ELSE path \o DropDots(Split(s, "/"))

\* ------------------------------------------------------------ category path
\* mutant: the parts are trimmed but not passed through sanitize_path
CategoryPartsUnsanitized(category) ==
    LET normal == ReplaceChar(ReplaceSpacedSep(category), ">", "/")
        raw == Split(normal, "/")
    IN  [i \in 1..Len(raw) |-> str_strip(raw[i])]

\* lines 90-91 of move_document_to_category
CategoryParts(category) ==
    LET normal == ReplaceChar(ReplaceSpacedSep(category), ">", "/")
        raw == Split(normal, "/")
    IN  [i \in 1..Len(raw) |-> sanitize_path(str_strip(raw[i]))]

RECURSIVE CategoryPath(_, _)
\* lines 94-96: category_path after joining the first parts
CategoryPath(base, parts) ==
    IF parts = <<>> THEN base
    ELSE CategoryPath(PathDiv(base, Head(parts)), Tail(parts))

\* the directories the loop of lines 95-97 visits, in order
CategoryDirs(base, parts) ==
    [i \in 1..Len(parts) |-> CategoryPath(base, SubSeq(parts, 1, i))]

\* ------------------------------------------------------------ file names
\* A file name is a string whose last element stands for the extension.
PdfSuffix == ".pdf"
R == <<"r", PdfSuffix>>
R1 == <<"r", "_", "1", PdfSuffix>>
FileNames == {R, R1}

\* Path.suffix and Path.stem of a file name
path_suffix(name) ==
    IF Len(name) > 1 /\ name[Len(name)] = PdfSuffix THEN <<PdfSuffix>> ELSE <<>>
path_stem(name) ==
    IF path_suffix(name) = <<>> THEN name ELSE SubSeq(name, 1, Len(name) - 1)

Digits == <<"0", "1", "2", "3", "4", "5", "6", "7", "8", "9">>
RECURSIVE IntStr(_)
\* str(n) of the f-string in line 106
IntStr(n) ==
    IF n < 10 THEN <<Digits[n + 1]>>
    ELSE IntStr(n \div 10) \o <<Digits[(n % 10) + 1]>>

\* line 106: f"{original_stem}_{counter}{dest_path.suffix}"
NumberedName(stem, counter, suffix) == stem \o <<"_">> \o IntStr(counter) \o suffix

\* ------------------------------------------------------------ classifier
\* line 99: the label recorded when the classifier call raises
ERROR_LABEL == <<"ERROR", ":", " ", "Classification failed">>
\* line 159
MOVE_FAILED_MESSAGE == <<"Failed to move file to category folder">>

\* What the model lets chain.run return; the call may also raise.
Responses == { <<"a", " ", ">", " ", "b", "\n">> }

NoStatus == "(none)"
TerminalStatuses == {"SUCCESS", "CLASSIFICATION_FAILED", "FILE_NOT_FOUND", "MOVE_FAILED"}

\* lines 90-93 and 97-100: the dict appended by classify_documents; the keys
\* status, new_location and error_message are absent (NoStatus, <<>>)
NewRecord(file_name, subcategory) ==
    [file_name |-> file_name, subcategory |-> subcategory, status |-> NoStatus,
     new_location |-> <<>>, error_message |-> <<>>]

\* lines 40-41: the backup directory of second t
Timestamps == <<"20240101_000000", "20240101_000001", "20240101_000002",
                "20240101_000003", "20240101_000004">>
BackupPath(backup_dir, t) == Append(backup_dir, <<Timestamps[t + 1]>>)

\* ------------------------------------------------------------ exceptions
\* line 148: the input directory, Path(input_dir)
InRoot == <<"<input_dir>">>
input_dir == <<InRoot>>

RECURSIVE PathStr(_)
\* str(path): the components joined by "/"
PathStr(p) ==
    IF p = <<>> THEN <<>>
    ELSE IF Len(p) = 1 THEN p[1]
    ELSE p[1] \o <<"/">> \o PathStr(Tail(p))

\* line 122: str(e) of the OSError an operation on filename raises,
\* "[Errno n] strerror: 'filename'"
OSErrorMessage(strerror, filename) ==
    <<"[Errno] ", strerror, ": '">> \o PathStr(filename) \o <<"'">>

\* str(e) of the exception the mkdir of line 97 raises for directory d: a
\* file has the name, or the directory cannot be created
MkdirError(d, files) ==
    OSErrorMessage(IF d \in DOMAIN files THEN "File exists" ELSE "Permission denied", d)

\* str(e) of the exception shutil.move raises in line 117: writing the
\* destination is refused ("raise"), or the file was copied and removing the
\* source is refused ("copied")
MoveError(outcome, src, dst) ==
    OSErrorMessage("Permission denied", IF outcome = "copied" THEN src ELSE dst)

\* lines 121-123 and 157-159: the exception e is logged and False is
\* returned; the record gets a fixed text, whatever str(e) is
RecordedMessage(e) == MOVE_FAILED_MESSAGE

VARIABLES
    pc,               \* where classify_and_organize_documents stands
    documents,        \* its argument: <<file_name, text>> pairs
    create_backups,   \* its argument
    classified_docs,  \* the records it builds and returns
    idx,              \* index of the document of the running loop
    mstep,            \* where move_document_to_category stands for that document
    category_parts,   \* local of move_document_to_category (<<>> outside it)
    dest_path,        \* local of move_document_to_category (<<>> outside it)
    backup,           \* what create_backup returned to it ("none" outside it)
    srcFiles,         \* the input directory: file name -> content
    outDirs,          \* directories that exist under the output directory
    outFiles,         \* files under the output directory: path -> content
    clock,            \* seconds, read by datetime.now()
    nfiles,           \* files that have appeared in the input directory
    runs,             \* calls of classify_and_organize_documents so far
    faults,           \* file system operations that have raised so far
    placed,           \* history: one entry per completed move
    path_str,         \* argument of a call of sanitize_path on its own
    result            \* local of that call (line 21), returned in line 26

vars == <<pc, documents, create_backups, classified_docs, idx, mstep,
          category_parts, dest_path, backup, srcFiles, outDirs, outFiles,
          clock, nfiles, runs, faults, placed, path_str, result>>

batchVars == <<documents, create_backups, runs>>
localVars == <<category_parts, dest_path, backup>>
fsVars == <<srcFiles, outDirs, outFiles>>
sanitizeVars == <<path_str, result>>

EmptyFn == [x \in {} |-> 0]
Min(a, b) == IF a < b THEN a ELSE b

Init ==
    /\ pc = "idle"
    /\ documents = <<>>
    /\ create_backups = TRUE
    /\ classified_docs = <<>>
    /\ idx = 1
    /\ mstep = "none"
    /\ category_parts = <<>>
    /\ dest_path = <<>>
    /\ backup = "none"
    /\ srcFiles = EmptyFn
    /\ outDirs = {}
    /\ outFiles = EmptyFn
    /\ clock = 0
    /\ nfiles = 0
    /\ runs = 0
    /\ faults = 0
    /\ placed = <<>>
    /\ path_str = <<>>
    /\ result = <<>>

Returned == pc \in {"idle", "done", "aborted"}

\* ------------------------------------------------------------ helpers
\* Path.exists()
PathExists(p) == p \in DOMAIN outFiles \/ p \in outDirs

\* mutant: the existence check of line 149 left out
SourceAssumedToExist(file_name) == TRUE

\* line 149: source_path.exists()
SourceExists(file_name) == file_name \in DOMAIN srcFiles

\* mutant: the sentinel check of line 142 left out
NeverClassificationError(category) == FALSE

\* line 142: category.startswith("ERROR:")
IsClassificationError(category) == StartsWith(category, <<"ERROR", ":">>)

RECURSIVE Probe(_, _, _, _)
\* lines 105-108: the while loop; dest_name is the name of dest_path
Probe(category_path, original_stem, dest_name, counter) ==
    IF ~PathExists(Append(category_path, dest_name))
    THEN Append(category_path, dest_name)
    ELSE Probe(category_path, original_stem,
               NumberedName(original_stem, counter, path_suffix(dest_name)),
               counter + 1)

\* mutant: no probing for a free name
ResolveDestNoProbe(category_path, file_name) == Append(category_path, file_name)

\* lines 100-108: the destination of file_name inside category_path
ResolveDest(category_path, file_name) ==
    Probe(category_path, path_stem(file_name), file_name, 1)

\* mutant: a failed document ends the loop
LoopBreakOnFailure(i, status) ==
    IF status = "SUCCESS" THEN i + 1 ELSE Len(classified_docs) + 1

\* lines 138, 146, 152: the for loop goes on to the next document whatever
\* the status of this one
LoopNext(i, status) == i + 1

\* mutant: a failed backup makes move_document_to_category return False
BackupFailureIsFatal == TRUE

\* lines 113-114: a failed backup is only logged
BackupFailureAborts == FALSE

\* mutant: the source is gone although the move raised
SourceLostOnFailedMove(src, file_name) ==
    [y \in DOMAIN src \ {file_name} |-> src[y]]

\* lines 117, 121-123: the input directory after shutil.move raised
SourceAfterFailedMove(src, file_name) == src

\* classified_docs with the keys of record i set
SetStatus(i, status, location, message) ==
    [classified_docs EXCEPT ![i].status = status,
                            ![i].new_location = location,
                            ![i].error_message = message]

Remove(f, x) == [y \in DOMAIN f \ {x} |-> f[y]]
Put(f, x, v) == [y \in DOMAIN f \cup {x} |-> IF y = x THEN v ELSE f[y]]

\* ------------------------------------------------------------ environment
\* A PDF named n appears in the input directory, with content never seen before.
DropFile(n) ==
    /\ Returned
    /\ nfiles < MaxFiles
    /\ n \notin DOMAIN srcFiles
    /\ srcFiles' = Put(srcFiles, n, nfiles + 1)
    /\ nfiles' = nfiles + 1
    /\ UNCHANGED <<faults, path_str, result>>
    /\ UNCHANGED <<pc, documents, create_backups, classified_docs, idx, mstep,
                   category_parts, dest_path, backup, outDirs, outFiles, clock,
                   runs, placed>>

\* A file of the input directory is moved or deleted by someone else between
\* loading and organizing (while the classifier is being called).
RemoveFile(n) ==
    /\ pc = "classify"
    /\ n \in DOMAIN srcFiles
    /\ srcFiles' = Remove(srcFiles, n)
    /\ UNCHANGED <<faults, path_str, result>>
    /\ UNCHANGED <<pc, documents, create_backups, classified_docs, idx, mstep,
                   category_parts, dest_path, backup, outDirs, outFiles, clock,
                   nfiles, runs, placed>>

\* ------------------------------------------------------------ the batch
\* The document lists load_pdfs_from_folder can return: files of the input
\* directory, each at most once, in any order, with the text read from them.
Loadable ==
    LET names == DOMAIN srcFiles
        seqs == UNION { [1..k -> names] : k \in 0..Cardinality(names) }
    IN  { [i \in DOMAIN q |-> [file_name |-> q[i], text |-> srcFiles[q[i]]]] :
            q \in { s \in seqs : \A i, j \in DOMAIN s : i # j => s[i] # s[j] } }

\* classify_and_organize_documents is called: lines 123-125
Start(docs, cb) ==
    /\ Returned
    /\ runs < MaxRuns
    /\ runs' = runs + 1
    /\ documents' = docs
    /\ create_backups' = cb
    /\ classified_docs' = <<>>
    /\ idx' = 1
    /\ pc' = IF docs = <<>> THEN "done" ELSE "classify"
    /\ UNCHANGED <<faults, path_str, result>>
    /\ UNCHANGED <<mstep, category_parts, dest_path, backup, srcFiles, outDirs,
                   outFiles, clock, nfiles, placed>>

\* classify_documents, one iteration of the loop of lines 82-100; raised says
\* that chain.run raised
ClassifyDoc(response, raised) ==
    /\ pc = "classify"
    /\ idx <= Len(documents)
    /\ classified_docs' = Append(classified_docs,
            NewRecord(documents[idx].file_name,
                      IF raised THEN ERROR_LABEL ELSE str_strip(response)))
    /\ idx' = IF idx = Len(documents) THEN 1 ELSE idx + 1
    /\ pc' = IF idx = Len(documents) THEN "folders" ELSE "classify"
    /\ UNCHANGED <<faults, path_str, result>>
    /\ UNCHANGED <<documents, create_backups, mstep, category_parts, dest_path,
                   backup, srcFiles, outDirs, outFiles, clock, nfiles, runs, placed>>

\* lines 131-135 with create_category_folders (lines 61-69); made is how many
\* of its two mkdir calls succeed.  A mkdir with exist_ok=True of a directory
\* that exists does not fail.
CreateFolders(made) ==
    LET backup_dir == Append(output_base, BackupsName)
        targets == <<output_base, backup_dir>>
    IN  /\ pc = "folders"
        /\ made < 2 => targets[made + 1] \notin outDirs /\ faults < MaxFaults
        /\ faults' = IF made < 2 THEN faults + 1 ELSE faults
        /\ outDirs' = outDirs \cup { targets[i] : i \in 1..made }
        /\ pc' = IF made = 2 THEN "organize" ELSE "aborted"
        /\ UNCHANGED <<path_str, result>>
        /\ UNCHANGED <<documents, create_backups, classified_docs, idx, mstep,
                       category_parts, dest_path, backup, srcFiles, outFiles,
                       clock, nfiles, runs, placed>>

InLoop == pc = "organize" /\ idx <= Len(classified_docs)
Doc == classified_docs[idx]

\* lines 142-146
SkipClassificationFailure ==
    /\ InLoop /\ mstep = "none"
    /\ IsClassificationError(Doc.subcategory)
    /\ classified_docs' =
          SetStatus(idx, "CLASSIFICATION_FAILED", <<>>, Doc.subcategory)
    /\ idx' = LoopNext(idx, "CLASSIFICATION_FAILED")
    /\ UNCHANGED <<faults, path_str, result>>
    /\ UNCHANGED <<pc, documents, create_backups, mstep, category_parts,
                   dest_path, backup, srcFiles, outDirs, outFiles, clock,
                   nfiles, runs, placed>>

\* lines 148-152
SourceNotFound ==
    /\ InLoop /\ mstep = "none"
    /\ ~IsClassificationError(Doc.subcategory)
    /\ ~SourceExists(Doc.file_name)
    /\ classified_docs' = SetStatus(idx, "FILE_NOT_FOUND", <<>>, <<>>)
    /\ idx' = LoopNext(idx, "FILE_NOT_FOUND")
    /\ UNCHANGED <<faults, path_str, result>>
    /\ UNCHANGED <<pc, documents, create_backups, mstep, category_parts,
                   dest_path, backup, srcFiles, outDirs, outFiles, clock,
                   nfiles, runs, placed>>

\* move_document_to_category, lines 88-108: the category directories and the
\* destination.  made is how many of the mkdir calls of line 97 succeed; a
\* mkdir raises where a file has the name, and may raise where the directory
\* does not exist yet.  When one raises, lines 121-123 return False and
\* lines 157-159 record the failure.
MoveResolve(made) ==
    LET parts == CategoryParts(Doc.subcategory)
        dirs == CategoryDirs(output_base, parts)
    IN  /\ InLoop /\ mstep = "none"
        /\ ~IsClassificationError(Doc.subcategory)
        /\ SourceExists(Doc.file_name)
        /\ made \in 0..Len(dirs)
        /\ \A i \in 1..made : dirs[i] \notin DOMAIN outFiles
        /\ made < Len(dirs) => dirs[made + 1] \notin outDirs /\ faults < MaxFaults
        /\ faults' = IF made < Len(dirs) THEN faults + 1 ELSE faults
        /\ outDirs' = outDirs \cup { dirs[i] : i \in 1..made }
        /\ IF made = Len(dirs)
           THEN /\ category_parts' = parts
                /\ dest_path' = ResolveDest(dirs[Len(dirs)], Doc.file_name)
                /\ mstep' = IF create_backups THEN "backup" ELSE "move"
                /\ UNCHANGED <<classified_docs, idx, backup>>
           ELSE /\ classified_docs' =
                      SetStatus(idx, "MOVE_FAILED", <<>>,
                                RecordedMessage(MkdirError(dirs[made + 1], outFiles)))
                /\ idx' = LoopNext(idx, "MOVE_FAILED")
                /\ UNCHANGED <<mstep, localVars>>
        /\ UNCHANGED <<path_str, result>>
        /\ UNCHANGED <<pc, documents, create_backups, srcFiles, outFiles, clock,
                       nfiles, runs, placed>>

\* lines 110-114 with create_backup (lines 38-50).  t is the second read by
\* datetime.now(); outcome says how far create_backup gets: "mkdir" it raises
\* in line 42, "copy" it raises in line 45, "ok" it returns True.
MoveBackup(t, outcome) ==
    LET backup_path == BackupPath(Append(output_base, BackupsName), t)
        target == Append(backup_path, Doc.file_name)
    IN  /\ InLoop /\ mstep = "backup"
        /\ t \in clock..Min(clock + 1, MaxClock)
        /\ clock' = t
        /\ outcome = "mkdir" => backup_path \notin outDirs
        /\ outcome # "ok" => faults < MaxFaults
        /\ faults' = IF outcome # "ok" THEN faults + 1 ELSE faults
        /\ outcome = "ok" => Doc.file_name \in DOMAIN srcFiles /\ target \notin outDirs
        /\ outDirs' = IF outcome = "mkdir" THEN outDirs
                      ELSE outDirs \cup {Append(output_base, BackupsName), backup_path}
        /\ outFiles' = IF outcome = "ok"
                       THEN Put(outFiles, target, srcFiles[Doc.file_name])
                       ELSE outFiles
        /\ IF outcome # "ok" /\ BackupFailureAborts
           THEN /\ classified_docs' =
                      SetStatus(idx, "MOVE_FAILED", <<>>, MOVE_FAILED_MESSAGE)
                /\ idx' = LoopNext(idx, "MOVE_FAILED")
                /\ mstep' = "none"
                /\ category_parts' = <<>> /\ dest_path' = <<>>
           ELSE /\ mstep' = "move"
                /\ UNCHANGED <<classified_docs, idx, category_parts, dest_path>>
        /\ backup' = IF outcome = "ok" THEN "ok" ELSE "failed"
        /\ UNCHANGED <<path_str, result>>
        /\ UNCHANGED <<pc, documents, create_backups, srcFiles, nfiles, runs, placed>>

\* lines 116-119 and 154-159.  outcome: "ok" shutil.move moved the file;
\* "raise" it raised and did nothing; "copied" it copied the file to the
\* destination (the rename was refused) and raised when unlinking the source.
MoveFile(outcome) ==
    LET name == Doc.file_name
    IN  /\ InLoop /\ mstep = "move"
        /\ outcome \in {"ok", "copied"} => name \in DOMAIN srcFiles
        /\ outcome # "ok" => faults < MaxFaults
        /\ faults' = IF outcome # "ok" THEN faults + 1 ELSE faults
        /\ mstep' = "none"
        /\ category_parts' = <<>> /\ dest_path' = <<>> /\ backup' = "none"
        /\ IF outcome = "ok"
           THEN /\ outFiles' = Put(outFiles, dest_path, srcFiles[name])
                /\ srcFiles' = Remove(srcFiles, name)
                /\ classified_docs' =
                      SetStatus(idx, "SUCCESS",
                                Append(PathDiv(output_base, Doc.subcategory), name),
                                <<>>)
                /\ idx' = LoopNext(idx, "SUCCESS")
                /\ placed' = Append(placed,
                      [file_name |-> name,
                       category_path |-> SubSeq(dest_path, 1, Len(dest_path) - 1),
                       dest |-> dest_path,
                       content |-> srcFiles[name]])
           ELSE /\ outFiles' = IF outcome = "copied"
                               THEN Put(outFiles, dest_path, srcFiles[name])
                               ELSE outFiles
                /\ srcFiles' = SourceAfterFailedMove(srcFiles, name)
                /\ classified_docs' =
                      SetStatus(idx, "MOVE_FAILED", <<>>,
                                RecordedMessage(MoveError(outcome, Append(input_dir, name),
                                                          dest_path)))
                /\ idx' = LoopNext(idx, "MOVE_FAILED")
                /\ UNCHANGED placed
        /\ UNCHANGED <<path_str, result>>
        /\ UNCHANGED <<pc, documents, create_backups, outDirs, clock, nfiles, runs>>

\* lines 161-164: the summary is printed and the records are returned
Finish ==
    /\ pc = "organize"
    /\ idx > Len(classified_docs)
    /\ pc' = "done"
    /\ UNCHANGED <<faults, path_str, result>>
    /\ UNCHANGED <<documents, create_backups, classified_docs, idx, mstep,
                   category_parts, dest_path, backup, srcFiles, outDirs, outFiles,
                   clock, nfiles, runs, placed>>

Next ==
    \/ \E n \in FileNames : DropFile(n)
    \/ \E n \in FileNames : RemoveFile(n)
    \/ \E docs \in Loadable, cb \in BOOLEAN : Start(docs, cb)
    \/ \E response \in Responses, raised \in BOOLEAN : ClassifyDoc(response, raised)
    \/ \E made \in 0..2 : CreateFolders(made)
    \/ SkipClassificationFailure
    \/ SourceNotFound
    \/ \E made \in 0..(MaxLabelLen + 1) : MoveResolve(made)
    \/ \E t \in 0..MaxClock, outcome \in {"ok", "mkdir", "copy"} : MoveBackup(t, outcome)
    \/ \E outcome \in {"ok", "raise", "copied"} : MoveFile(outcome)
    \/ Finish

Spec == Init /\ [][Next]_vars

\* ------------------------------------------------------------ labels
\* A second specification: one document whose label is any string over
\* Alphabet of at most MaxLabelLen characters, about to be organized.  The
\* backslash stands for the invalid characters that are no separators; the
\* last element is the name of the backup directory, written as one
\* character as in BackupsName.
Alphabet == {"a", "b", " ", ">", "/", ".", "\\", "_backups"}
Labels == {<<>>} \cup UNION { [1..n -> Alphabet] : n \in 1..MaxLabelLen }

InitLabels ==
    /\ pc = "organize"
    /\ documents = <<[file_name |-> R, text |-> 1]>>
    /\ create_backups \in BOOLEAN
    /\ \E l \in Labels : classified_docs = <<NewRecord(R, str_strip(l))>>
    /\ idx = 1
    /\ mstep = "none"
    /\ category_parts = <<>>
    /\ dest_path = <<>>
    /\ backup = "none"
    /\ srcFiles = Put(EmptyFn, R, 1)
    /\ outDirs = {output_base, Append(output_base, BackupsName)}
    /\ outFiles = EmptyFn
    /\ clock = 0
    /\ nfiles = 1
    /\ runs = 1
    /\ faults = 0
    /\ placed = <<>>
    /\ path_str = <<>>
    /\ result = <<>>

NextLabels ==
    \/ \E made \in 0..(MaxLabelLen + 1) : MoveResolve(made)
    \/ \E t \in 0..MaxClock, outcome \in {"ok", "mkdir", "copy"} : MoveBackup(t, outcome)
    \/ \E outcome \in {"ok", "raise", "copied"} : MoveFile(outcome)
    \/ Finish

SpecLabels == InitLabels /\ [][NextLabels]_vars

\* ------------------------------------------------------------ sanitize_path alone
\* A third specification: sanitize_path is called on any string over
\* SanitizeAlphabet of at most MaxStrLen characters, and then once more on
\* what it returned.  Here pc says where these two calls stand.
SanitizeAlphabet == invalid_chars \cup {".", " ", "\t", "a"}
Strings == {<<>>} \cup UNION { [1..n -> SanitizeAlphabet] : n \in 1..MaxStrLen }

InitSanitize ==
    /\ pc = "sanitize"
    /\ path_str \in Strings
    /\ result = <<>>
    /\ documents = <<>>
    /\ create_backups = TRUE
    /\ classified_docs = <<>>
    /\ idx = 1
    /\ mstep = "none"
    /\ category_parts = <<>>
    /\ dest_path = <<>>
    /\ backup = "none"
    /\ srcFiles = EmptyFn
    /\ outDirs = {}
    /\ outFiles = EmptyFn
    /\ clock = 0
    /\ nfiles = 0
    /\ runs = 0
    /\ faults = 0
    /\ placed = <<>>

\* lines 17-26: sanitize_path(path_str) returns
Sanitize ==
    /\ pc = "sanitize"
    /\ result' = sanitize_path(path_str)
    /\ pc' = "sanitized"
    /\ UNCHANGED <<path_str, documents, create_backups, classified_docs, idx,
                   mstep, category_parts, dest_path, backup, srcFiles, outDirs,
                   outFiles, clock, nfiles, runs, faults, placed>>

\* lines 17-26: sanitize_path is called on the string it returned
SanitizeAgain ==
    /\ pc = "sanitized"
    /\ result' = sanitize_path(result)
    /\ pc' = "resanitized"
    /\ UNCHANGED <<path_str, documents, create_backups, classified_docs, idx,
                   mstep, category_parts, dest_path, backup, srcFiles, outDirs,
                   outFiles, clock, nfiles, runs, faults, placed>>

NextSanitize ==
    \/ Sanitize
    \/ SanitizeAgain

SpecSanitize == InitSanitize /\ [][NextSanitize]_vars

\* ------------------------------------------------------------ claims
Statuses == [i \in DOMAIN classified_docs |-> classified_docs[i].status]
CountStatus(st) == Cardinality({ i \in DOMAIN classified_docs : Statuses[i] = st })
InBackups(p) == Len(p) >= 2 /\ SubSeq(p, 1, 2) = <<OutRoot, BackupsName>>
Chars(s) == { s[i] : i \in DOMAIN s }
DirOf(p) == SubSeq(p, 1, Len(p) - 1)

\* C1: whenever a document's record has status MOVE_FAILED, its source file
\* still exists in the input directory with the content it had when it was
\* loaded.
C1_FailedPlacementKeepsSource ==
    \A i \in DOMAIN classified_docs :
        Statuses[i] = "MOVE_FAILED" =>
            /\ documents[i].file_name \in DOMAIN srcFiles
            /\ srcFiles[documents[i].file_name] = documents[i].text

\* a record is MOVE_FAILED, its source is in place, and the destination
\* directory it was headed for exists
C1_Witness ==
    \E i \in DOMAIN classified_docs :
        /\ Statuses[i] = "MOVE_FAILED"
        /\ documents[i].file_name \in DOMAIN srcFiles
        /\ CategoryPath(output_base, CategoryParts(classified_docs[i].subcategory))
              \in outDirs

\* C3: for every record with status SUCCESS, new_location is the path at
\* which the moved file resides (the destination of its move).
C3_RecordedPathIsFinalPath ==
    \A i \in DOMAIN classified_docs :
        Statuses[i] = "SUCCESS" =>
            \A k \in DOMAIN placed :
                placed[k].content = documents[i].text =>
                    classified_docs[i].new_location = placed[k].dest

\* C4 as stated: whenever classify_and_organize_documents has returned, there
\* is one record per input document, each with a terminal status, and the
\* counts per status add up to the number of input documents.
C4_EveryRecordTerminal ==
    pc \in {"done", "aborted"} =>
        /\ Len(classified_docs) = Len(documents)
        /\ \A i \in DOMAIN classified_docs : Statuses[i] \in TerminalStatuses
        /\ CountStatus("SUCCESS") + CountStatus("CLASSIFICATION_FAILED")
             + CountStatus("FILE_NOT_FOUND") + CountStatus("MOVE_FAILED")
           = Len(documents)

\* C4 amended: there is always one record per input document, in order; when
\* the call returns after the organizing loop every record has a terminal
\* status and the counts add up; when it returns early because the output
\* directory structure could not be created, no record has a status.
C4_BatchRecords ==
    /\ pc \in {"done", "aborted"} =>
          /\ Len(classified_docs) = Len(documents)
          /\ \A i \in DOMAIN classified_docs :
                classified_docs[i].file_name = documents[i].file_name
    /\ pc = "done" =>
          /\ \A i \in DOMAIN classified_docs : Statuses[i] \in TerminalStatuses
          /\ CountStatus("SUCCESS") + CountStatus("CLASSIFICATION_FAILED")
               + CountStatus("FILE_NOT_FOUND") + CountStatus("MOVE_FAILED")
             = Len(documents)
          /\ documents = <<>> => classified_docs = <<>>
    /\ pc = "aborted" =>
          \A i \in DOMAIN classified_docs : Statuses[i] = NoStatus

\* a returned batch of two documents whose first failed and whose second
\* was moved
C4_Witness ==
    /\ pc = "done"
    /\ Len(classified_docs) = 2
    /\ Statuses[1] \in TerminalStatuses \ {"SUCCESS"}
    /\ Statuses[2] = "SUCCESS"

\* The number a placement's destination carries: 0 for the original name.
CounterOf(p) ==
    IF p.dest = Append(p.category_path, p.file_name) THEN 0
    ELSE CHOOSE k \in 1..(MaxFiles + MaxRuns + 1) :
            p.dest = Append(p.category_path,
                            NumberedName(path_stem(p.file_name), k,
                                         path_suffix(p.file_name)))

\* the candidate names of line 100 and line 106, by number
Candidate(p, k) ==
    IF k = 0 THEN Append(p.category_path, p.file_name)
    ELSE Append(p.category_path,
                NumberedName(path_stem(p.file_name), k, path_suffix(p.file_name)))

\* every completed move went to a path of its own; of two moves of the same
\* file name into the same category directory the later got the higher
\* number; every moved file is still where it was moved to, with its content
C2_PlacedDistinct ==
    /\ \A i, j \in DOMAIN placed :
          i < j =>
             /\ placed[i].dest # placed[j].dest
             /\ (placed[i].category_path = placed[j].category_path
                   /\ placed[i].file_name = placed[j].file_name)
                => CounterOf(placed[i]) < CounterOf(placed[j])
    /\ \A k \in DOMAIN placed :
          /\ placed[k].dest \in DOMAIN outFiles
          /\ outFiles[placed[k].dest] = placed[k].content

\* a placement step leaves every file that exists under the output
\* directory in place with its content
C2_NoOverwrite ==
    mstep = "move" =>
        \A p \in DOMAIN outFiles :
            p \in DOMAIN outFiles' /\ outFiles'[p] = outFiles[p]

\* a completed move took the first unused candidate: the original name if it
\* was free, else the lowest-numbered free name
C2_FirstUnused ==
    Len(placed') > Len(placed) =>
        LET p == placed'[Len(placed')]
        IN  /\ p.dest \notin DOMAIN outFiles
            /\ \A k \in 0..(CounterOf(p) - 1) : Candidate(p, k) \in DOMAIN outFiles

\* C2: successful placements that collide (same category path, same file
\* name) end at distinct paths, name.ext first and then stem_1.ext,
\* stem_2.ext, ... in increasing order, each the first unused candidate, and
\* no file already under the output directory is overwritten by a placement.
C2_CollisionsResolved ==
    /\ []C2_PlacedDistinct
    /\ [][C2_NoOverwrite]_vars
    /\ [][C2_FirstUnused]_vars

\* the same file name was moved twice into the same category directory: the
\* first kept its name, the second got number 1
C2_Witness ==
    \E i, j \in DOMAIN placed :
        /\ i < j
        /\ placed[i].category_path = placed[j].category_path
        /\ placed[i].file_name = placed[j].file_name
        /\ CounterOf(placed[i]) = 0
        /\ CounterOf(placed[j]) = 1

\* C5 as stated: whenever the batch has returned, every record whose label is
\* the failure sentinel has status CLASSIFICATION_FAILED.
C5_SentinelAlwaysRecorded ==
    pc \in {"done", "aborted"} =>
        \A i \in DOMAIN classified_docs :
            classified_docs[i].subcategory = ERROR_LABEL =>
                Statuses[i] = "CLASSIFICATION_FAILED"

\* the organizing step of a document whose label is the failure sentinel:
\* it records CLASSIFICATION_FAILED, does not enter move_document_to_category
\* and leaves the input and output directories as they are
C5_SentinelStep ==
    (InLoop /\ mstep = "none" /\ Doc.subcategory = ERROR_LABEL) =>
        /\ classified_docs'[idx].status = "CLASSIFICATION_FAILED"
        /\ mstep' = "none"
        /\ UNCHANGED <<srcFiles, outDirs, outFiles, placed, category_parts, dest_path>>

\* when the batch returns after the organizing loop, every sentinel record
\* has status CLASSIFICATION_FAILED; at any time a document with a sentinel
\* record was not moved and its source file, where it still exists, has the
\* content that was loaded
C5_SentinelState ==
    \A i \in DOMAIN classified_docs :
        classified_docs[i].subcategory = ERROR_LABEL =>
            /\ pc = "done" => Statuses[i] = "CLASSIFICATION_FAILED"
            /\ Statuses[i] \in {NoStatus, "CLASSIFICATION_FAILED"}
            /\ \A k \in DOMAIN placed : placed[k].content # documents[i].text
            /\ (~Returned /\ documents[i].file_name \in DOMAIN srcFiles) =>
                  srcFiles[documents[i].file_name] = documents[i].text

\* C5 amended: a document whose label is the failure sentinel gets status
\* CLASSIFICATION_FAILED when the organizing loop reaches it (a batch that
\* returns early because the output directory structure could not be created
\* leaves it without status); move_document_to_category is never entered for
\* it and its file is left untouched.
C5_SentinelSkipped == []C5_SentinelState /\ [][C5_SentinelStep]_vars

\* a returned batch with a sentinel record marked CLASSIFICATION_FAILED whose
\* file is still in the input directory
C5_Witness ==
    /\ pc = "done"
    /\ \E i \in DOMAIN classified_docs :
          /\ classified_docs[i].subcategory = ERROR_LABEL
          /\ Statuses[i] = "CLASSIFICATION_FAILED"
          /\ documents[i].file_name \in DOMAIN srcFiles

\* The segments of a label split on ">", each trimmed and sanitized.
SeparatorSegments(label) ==
    LET raw == Split(label, ">")
    IN  [i \in 1..Len(raw) |-> sanitize_path(str_strip(raw[i]))]

\* C6: for a label that contains a separator, the category parts are the
\* segments of the label split on the separator, each trimmed and sanitized.
C6_SegmentsAreSeparatorSplit ==
    (InLoop /\ mstep # "none" /\ ">" \in Chars(Doc.subcategory)) =>
        category_parts = SeparatorSegments(Doc.subcategory)

\* C7: for a label without separator, the category path has the single
\* segment sanitize_path(label) and the file goes to that directory.
C7_SingleSegment ==
    (InLoop /\ mstep # "none" /\ ">" \notin Chars(Doc.subcategory)) =>
        /\ category_parts = <<sanitize_path(Doc.subcategory)>>
        /\ DirOf(dest_path) = PathDiv(output_base, sanitize_path(Doc.subcategory))

\* C8: no segment of a resolved category path is empty, and the destination
\* directory lies as many levels below the output directory as the label has
\* segments.
C8_SegmentsNonEmpty ==
    (InLoop /\ mstep # "none") =>
        /\ \A i \in DOMAIN category_parts : category_parts[i] # <<>>
        /\ Len(DirOf(dest_path)) = Len(output_base) + Len(category_parts)

\* C9: when the organizing loop reaches a document with a usable label whose
\* source file does not exist, it records FILE_NOT_FOUND and goes on to the
\* next document: no directory is created, no backup or move is made, and
\* move_document_to_category is not entered.
C9_MissingSourceStep ==
    (InLoop /\ mstep = "none" /\ ~IsClassificationError(Doc.subcategory)
       /\ Doc.file_name \notin DOMAIN srcFiles) =>
        /\ classified_docs'[idx].status = "FILE_NOT_FOUND"
        /\ idx' = idx + 1
        /\ mstep' = "none"
        /\ UNCHANGED <<srcFiles, outDirs, outFiles, placed, category_parts,
                       dest_path, backup, clock>>

C9_MissingSourceStops == [][C9_MissingSourceStep]_vars

\* a returned batch with a FILE_NOT_FOUND record whose source is missing
C9_Witness ==
    /\ pc = "done"
    /\ \E i \in DOMAIN classified_docs :
          /\ Statuses[i] = "FILE_NOT_FOUND"
          /\ documents[i].file_name \notin DOMAIN srcFiles

\* a backup step that fails changes nothing in the input directory and
\* hands over to the move
C10_FailedBackupStep ==
    (InLoop /\ mstep = "backup" /\ backup' = "failed") =>
        /\ srcFiles' = srcFiles
        /\ mstep' = "move"
        /\ classified_docs' = classified_docs
        /\ idx' = idx

\* a move that succeeds after a failed backup records SUCCESS and the file
\* is at its destination
C10_MoveAfterFailedBackup ==
    (InLoop /\ mstep = "move" /\ backup = "failed"
       /\ Doc.file_name \notin DOMAIN srcFiles') =>
        /\ classified_docs'[idx].status = "SUCCESS"
        /\ dest_path \in DOMAIN outFiles'
        /\ outFiles'[dest_path] = documents[idx].text

\* C10: with backups enabled, a failed backup is not fatal: the source is
\* unchanged by it, the move is attempted, and a successful move ends with
\* status SUCCESS and the file at its destination.
C10_BackupFailureNonFatal ==
    /\ [][C10_FailedBackupStep]_vars
    /\ [][C10_MoveAfterFailedBackup]_vars
    /\ [](backup = "failed" => create_backups /\ (mstep = "move" => InLoop))

\* a SUCCESS record of a batch run with backups enabled whose content has no
\* copy under _backups: its backup failed and it was moved all the same
C10_Witness ==
    /\ create_backups
    /\ \E i \in DOMAIN classified_docs :
          /\ Statuses[i] = "SUCCESS"
          /\ \A p \in DOMAIN outFiles :
                InBackups(p) => outFiles[p] # documents[i].text
          /\ \E k \in DOMAIN placed :
                placed[k].content = documents[i].text /\ ~InBackups(placed[k].dest)

\* The directory whose mkdir of line 97 raised in this step: the first of
\* the category directories that does not exist after it.
FailedDir ==
    LET dirs == CategoryDirs(output_base, CategoryParts(Doc.subcategory))
    IN  dirs[CHOOSE k \in DOMAIN dirs :
                 dirs[k] \notin outDirs' /\ \A j \in 1..(k - 1) : dirs[j] \in outDirs']

\* str(e) of the exception move_document_to_category catches in this step
CaughtMessage ==
    IF mstep = "none"
    THEN MkdirError(FailedDir, outFiles)
    ELSE MoveError(IF dest_path \in DOMAIN outFiles' THEN "copied" ELSE "raise",
                   Append(input_dir, Doc.file_name), dest_path)

\* a step of the organizing loop in which a mkdir of line 97 or the move of
\* line 117 raises
C11_PlacementFailureStep ==
    (InLoop /\ mstep \in {"none", "move"} /\ faults' = faults + 1) =>
        /\ classified_docs'[idx].status = "MOVE_FAILED"
        /\ classified_docs'[idx].error_message = CaughtMessage

\* C11: whenever a placement fails at directory creation or at the move, the
\* document's record gets status MOVE_FAILED and its error_message is the
\* message of the exception that caused the failure.
C11_FailureCarriesMessage == [][C11_PlacementFailureStep]_vars

\* the part of C11 about the status alone
C11_FailureStatus ==
    [][(InLoop /\ mstep \in {"none", "move"} /\ faults' = faults + 1) =>
          classified_docs'[idx].status = "MOVE_FAILED"]_vars

\* a string sanitize_path returned has none of the invalid characters and
\* neither starts nor ends with a space or a dot
C12_Safe ==
    pc \in {"sanitized", "resanitized"} =>
        /\ Chars(result) \cap invalid_chars = {}
        /\ result # <<>> =>
              /\ result[1] \notin {" ", "."}
              /\ result[Len(result)] \notin {" ", "."}

\* sanitize_path applied to a string it returned returns that string
C12_SecondCall == pc = "sanitized" => result' = result

\* C12: sanitize_path is idempotent, sanitize_path(sanitize_path(x)) =
\* sanitize_path(x) for every string x, and what it returns contains none of
\* the characters < > : " / \ | ? * and neither starts nor ends with a space
\* or a dot.
C12_SanitizeIdempotentAndSafe == []C12_Safe /\ [][C12_SecondCall]_vars

\* both calls have returned for an argument with an invalid character that
\* was replaced and a dot or space that was trimmed
C12_Witness ==
    /\ pc = "resanitized"
    /\ Chars(path_str) \cap invalid_chars # {}
    /\ "_" \in Chars(result)
    /\ Len(result) < Len(path_str)
    /\ result = sanitize_path(path_str)

\* p lies below the backup directory of the output directory
UnderBackups(p) == Len(p) > 2 /\ SubSeq(p, 1, 2) = Append(output_base, BackupsName)

\* at the moment of the move (line 117) after create_backup returned True:
\* the source file has the content that was loaded, and a file of its name
\* with that content is in a timestamp directory of the backup directory
C13_BackupBeforeMove ==
    (InLoop /\ mstep = "move" /\ backup = "ok") =>
        /\ create_backups
        /\ Doc.file_name \in DOMAIN srcFiles
        /\ srcFiles[Doc.file_name] = documents[idx].text
        /\ \E t \in 0..MaxClock :
              LET copy == Append(BackupPath(Append(output_base, BackupsName), t),
                                 Doc.file_name)
              IN  copy \in DOMAIN outFiles /\ outFiles[copy] = srcFiles[Doc.file_name]

\* a step of a placement with backups disabled adds no directory and no
\* file below the backup directory
C13_NoBackupEntryStep ==
    (InLoop /\ ~create_backups) =>
        \A p \in (outDirs' \ outDirs) \cup (DOMAIN outFiles' \ DOMAIN outFiles) :
            ~UnderBackups(p)

\* C13: when a document is moved with backups enabled and the backup step
\* reported success, a copy of the file with the same name and content is
\* under <output>/_backups/<timestamp>/ at the moment of the move and the
\* source is unchanged since the backup; with backups disabled a placement
\* never writes an entry under _backups.
C13_BackupThenMove == []C13_BackupBeforeMove /\ [][C13_NoBackupEntryStep]_vars

\* p names a place inside the output directory: it starts with the output
\* directory, goes on below it, and no component of it is ".." or holds a
\* path separator
Inside(p) ==
    /\ Len(p) > Len(output_base)
    /\ SubSeq(p, 1, Len(output_base)) = output_base
    /\ \A i \in (Len(output_base) + 1)..Len(p) :
          p[i] # <<".", ".">> /\ "/" \notin Chars(p[i])

\* what a step of a placement creates lies inside the output directory
C14_CreatedInsideStep ==
    InLoop =>
        \A p \in (outDirs' \ outDirs) \cup (DOMAIN outFiles' \ DOMAIN outFiles) :
            Inside(p)

\* the destination move_document_to_category has resolved lies inside the
\* output directory, and so does its directory unless it is the output
\* directory itself
C14_DestInside ==
    (InLoop /\ mstep # "none") =>
        /\ Inside(dest_path)
        /\ DirOf(dest_path) = output_base \/ Inside(DirOf(dest_path))

\* C14: for every label (with "..", ".", "/", a backslash or leading
\* separators) every directory move_document_to_category creates and the
\* destination it moves the file to lie inside the output directory.
C14_Containment == []C14_DestInside /\ [][C14_CreatedInsideStep]_vars

\* a document whose label has a segment ".." was moved into a directory
\* below the output directory
C14_Witness ==
    /\ Len(classified_docs) = 1
    /\ Statuses[1] = "SUCCESS"
    /\ \E k \in DOMAIN Split(classified_docs[1].subcategory, "/") :
          Split(classified_docs[1].subcategory, "/")[k] = <<".", ".">>
    /\ Len(placed) = 1
    /\ Len(placed[1].dest) > Len(output_base) + 1
    /\ placed[1].dest \in DOMAIN outFiles
    /\ Inside(placed[1].dest)

====
